---- MODULE Spec2Model ----
(***************************************************************************)
(* Model of the two diagnostic scripts of JCoDroneEdu:                     *)
(*   scripts/compare_altitude_sensors.py  (script = "compare")             *)
(*   scripts/test_python_baseline.py      (script = "baseline")            *)
(* Each script is a straight line of SDK calls inside try/except/finally.  *)
(* The SDK (codrone_edu.drone.Drone) is an opaque collaborator: every call *)
(* either returns or raises an Exception carrying some text.               *)
(***************************************************************************)
EXTENDS Integers, Sequences, FiniteSets, TLC

VARIABLES script,      \* which of the two scripts runs
          pc,          \* position of the interpreter in main()
          calls,       \* SDK calls issued so far, in order (call sites)
          raised,      \* call sites whose call raised
          out,         \* lines printed so far, in order
          exc,         \* text of the exception the top-level handler caught
          topCause,    \* call site whose exception entered the top-level handler
          closeCalls,  \* number of times drone.close() was called
          exitStatus,  \* -1 while running, then the process exit status
          r_mm,        \* get_range_data()[2], millimetres (-1 before the read)
          h_mm         \* get_height("m") as the double nearest h_mm/1000 (-1 before)

vars == <<script, pc, calls, raised, out, exc, topCause, closeCalls,
          exitStatus, r_mm, h_mm>>

(* ------------------------------ bounds --------------------------------- *)
\* largest reading, in millimetres, the sensors deliver in the model
MaxMm == 9
\* number of distinct exception texts the SDK can raise with
NumTexts == 2

ExcTexts == {"err1", "err2", "err3", "err4"}
Texts == IF NumTexts >= 4 THEN ExcTexts
         ELSE IF NumTexts = 3 THEN {"err1", "err2", "err3"}
         ELSE IF NumTexts = 2 THEN {"err1", "err2"} ELSE {"err1"}

NoExc == "none"
NoSite == "none"

Line(kind, site, text) == [kind |-> kind, site |-> site, text |-> text]

(* ----------------------- try/except structure -------------------------- *)
\* Call sites of the comparison script, in program order
\* (compare_altitude_sensors.py lines 26-69).
CompareSites == <<"pair", "get_range_data", "get_height", "get_state_data",
                  "sendRequest", "get_pressure", "get_drone_temperature">>

\* Call sites of the baseline script, in program order
\* (test_python_baseline.py lines 28-122).  The altitude test calls
\* get_pressure() twice; "alt_request" is the first of the two calls.
BaselineSites == <<"pair", "get_information_data", "get_cpu_id_data",
                   "get_address_data", "get_count_data", "get_flight_time",
                   "get_takeoff_count", "get_landing_count",
                   "get_accident_count", "alt_request", "get_height",
                   "get_pressure", "get_temperature", "get_battery">>

CounterSites == {"get_flight_time", "get_takeoff_count", "get_landing_count",
                 "get_accident_count"}
AltitudeSites == {"alt_request", "get_height", "get_pressure", "get_temperature"}

\* Handler with the CPU id query outside any per-probe try statement.
Handler_CpuUnguarded(s, site) ==
    IF s = "compare" THEN "top"
    ELSE IF site \in {"pair", "get_cpu_id_data"} THEN "top"
    ELSE IF site \in CounterSites THEN "pass"
    ELSE "warn"

\* Handler with the four counter reads outside their bare except clauses
\* and outside the count-data try statement.
Handler_CountersUnguarded(s, site) ==
    IF s = "compare" THEN "top"
    ELSE IF site = "pair" \/ site \in CounterSites THEN "top"
    ELSE "warn"

\* The innermost except clause that encloses a call site:
\*   "top"  - only the outermost `except Exception as e` encloses it,
\*   "warn" - a per-probe `except Exception as e: print(warning)`,
\*   "pass" - a bare `except: pass`.
Handler(s, site) ==
    IF s = "compare" THEN "top"
    ELSE IF site = "pair" THEN "top"
    ELSE IF site \in CounterSites THEN "pass"
    ELSE "warn"

\* The label the per-probe warning line carries for a call site.
WarnLabel(site) ==
    IF site \in AltitudeSites THEN "Altitude test failed"
    ELSE IF site = "get_battery" THEN "Battery test failed"
    ELSE site

\* Where control continues once the local handler of a baseline call site
\* has run (the statement after the try statement that caught).
AfterHandler(site) ==
    CASE site = "get_information_data" -> "get_cpu_id_data"
      [] site = "get_cpu_id_data"      -> "get_address_data"
      [] site = "get_address_data"     -> "get_count_data"
      [] site = "get_count_data"       -> "alt_request"
      [] site = "get_flight_time"      -> "get_takeoff_count"
      [] site = "get_takeoff_count"    -> "get_landing_count"
      [] site = "get_landing_count"    -> "get_accident_count"
      [] site = "get_accident_count"   -> "alt_request"
      [] site \in AltitudeSites        -> "get_battery"
      [] site = "get_battery"          -> "banner"
      [] OTHER                         -> "except"

\* What the baseline script prints between the end of one test's try
\* statement and the first SDK call of the next: print() and the next header.
Between(next) ==
    IF next \in {"get_cpu_id_data", "get_address_data", "get_count_data",
                 "alt_request", "get_battery"}
    THEN <<Line("blank", next, ""), Line("header", next, "")>>
    ELSE IF next = "banner" THEN <<Line("blank", next, "")>>
    ELSE << >>

\* An SDK call at `site` raises an exception with text e.
Raise(site, e) ==
    /\ raised' = raised \cup {site}
    /\ CASE Handler(script, site) = "top" ->
              /\ exc' = e
              /\ topCause' = site
              /\ pc' = "except"
              /\ out' = out
         [] Handler(script, site) = "warn" ->
              /\ out' = out \o <<Line("warn", WarnLabel(site), e)>>
                            \o Between(AfterHandler(site))
              /\ pc' = AfterHandler(site)
              /\ UNCHANGED <<exc, topCause>>
         [] OTHER ->
              /\ out' = out \o Between(AfterHandler(site))
              /\ pc' = AfterHandler(site)
              /\ UNCHANGED <<exc, topCause>>

\* An SDK call at `site` returns; the script prints `lines` and goes on.
Return(lines, next) ==
    /\ out' = out \o lines
    /\ pc' = next
    /\ UNCHANGED <<raised, exc, topCause>>

\* A call that consumes no reading: issue it, then it returns or raises.
SdkCall(site, lines, next) ==
    /\ pc = site
    /\ calls' = Append(calls, site)
    /\ \/ Return(lines, next)
       \/ \E e \in Texts : Raise(site, e)
    /\ UNCHANGED <<script, closeCalls, exitStatus, r_mm, h_mm>>

(* ------------------- binary64 arithmetic of line 42-48 ------------------ *)
\* Python floats are IEEE-754 binary64: 53 significant bits, results rounded
\* to nearest, ties to even.  A float of the model is a sequence of FW bits,
\* most significant first, read as an integer multiple of 2^-62 (two bits
\* before the binary point); every float the script computes from readings
\* of 1..3999 mm lies on that grid.  (Appending the empty sequence to a
\* function over 1..n makes TLC store it as a sequence of values.)
SigBits == 53
\* 2 bits before the binary point, 10 leading fraction bits that 0.001 > 2^-10
\* leaves zero, and the 52 bits below the leading one: 64 = SigBits + 11
FW == SigBits + 11
Divisor == 1000

\* index of the first 1 bit of b, or Len(b)+1 when there is none
FirstOne(b) ==
    CHOOSE i \in 1..(Len(b) + 1) :
        /\ i = Len(b) + 1 \/ b[i] = 1
        /\ \A j \in 1..(i - 1) : b[j] = 0

\* b + 2^(FW-i) on the grid: the carry ripples over the 1 bits that end at
\* position i and sets the 0 bit before them.
AddAt(b, i) ==
    LET zeros == {j \in 1..i : b[j] = 0}
        stop  == IF zeros = {} THEN 0
                 ELSE CHOOSE j \in zeros : \A k \in zeros : k <= j
    IN  [k \in 1..FW |-> IF k = stop THEN 1
                         ELSE IF k > stop /\ k <= i THEN 0 ELSE b[k]] \o << >>

\* Round the exact value b (at least FW bits; `sticky` says whether the exact
\* value has further nonzero bits beyond b) to 53 significant bits,
\* round-half-to-even, and return it on the FW-bit grid.
Round53(b, sticky) ==
    LET p    == FirstOne(b)
        last == p + SigBits - 1
        kept == [i \in 1..FW |-> IF i <= last /\ i <= Len(b) THEN b[i] ELSE 0]
                   \o << >>
    IN  IF p > Len(b) \/ last >= Len(b) THEN kept
        ELSE LET guard == b[last + 1]
                 rest  == sticky \/ \E i \in (last + 2)..Len(b) : b[i] = 1
             IN  IF guard = 1 /\ (rest \/ b[last] = 1)
                 THEN AddAt(kept, last) ELSE kept

\* 2^n mod 1000 for 0 <= n <= 80, in factors that fit the integer width
Pow2Mod(n) ==
    LET f(k) == (2 ^ (IF k < 0 THEN 0 ELSE IF k > 20 THEN 20 ELSE k)) % Divisor
    IN  (((f(n) * f(n - 20)) % Divisor) * ((f(n - 40) * f(n - 60)) % Divisor))
           % Divisor

\* the remainder of the long division rem/1000 after n bits of the quotient
FracRem(rem, n) == (rem * Pow2Mod(n)) % Divisor

\* the first n bits after the binary point of rem/1000, for 0 <= rem < 1000
FracBits(rem, n) ==
    [i \in 1..n |-> (2 * FracRem(rem, i - 1)) \div Divisor] \o << >>

\* mm / 1000.0 (line 42): the correctly rounded binary64 quotient.
DivBy1000(mm) ==
    LET ip   == mm \div Divisor
        bits == <<ip \div 2, ip % 2>> \o FracBits(mm % Divisor, FW)
    IN  Round53(bits, FracRem(mm % Divisor, FW) # 0)

\* a < b for two floats on the grid
FLess(a, b) ==
    \E i \in 1..FW : /\ a[i] < b[i]
                     /\ \A j \in 1..(i - 1) : a[j] = b[j]

\* a - b for a >= b, before rounding: position i borrows when the bits
\* after it of a are less than those of b.
FSub(a, b) ==
    LET borrow(i) == \E j \in (i + 1)..FW :
                        /\ a[j] < b[j]
                        /\ \A k \in (i + 1)..(j - 1) : a[k] = b[k]
    IN  [i \in 1..FW |-> (a[i] - b[i] - (IF borrow(i) THEN 1 ELSE 0)) % 2]
           \o << >>

\* abs(x - y) (line 48): the rounded binary64 difference, sign dropped.
FAbsDiff(x, y) ==
    IF FLess(x, y) THEN Round53(FSub(y, x), FALSE)
    ELSE Round53(FSub(x, y), FALSE)

\* the literal 0.001 of line 48: the double nearest to 1/1000
Tolerance == DivBy1000(1)

\* The mark of the "Match:" line (line 48) for a raw range reading of r mm
\* and a height reading that is the double nearest to h/1000 m.
Check == "check"
Cross == "cross"
MatchMark(r, h) ==
    IF FLess(FAbsDiff(DivBy1000(h), DivBy1000(r)), Tolerance)
    THEN Check ELSE Cross

(* ------------------------------ the scripts ---------------------------- *)
Scripts == {"compare", "baseline"}

\* len(state) > 10 (compare_altitude_sensors.py line 60)
StateLenLimit == 10
StateLens == {0, StateLenLimit, StateLenLimit + 1}

Readings == 0..MaxMm

\* main() up to `drone = Drone()`: the title block is already printed.
Init ==
    /\ script \in Scripts
    /\ pc = "construct"
    /\ calls = << >>
    /\ raised = {}
    /\ out = <<Line("title", "main", "")>>
    /\ exc = NoExc
    /\ topCause = NoSite
    /\ closeCalls = 0
    /\ exitStatus = -1
    /\ r_mm = -1
    /\ h_mm = -1

\* drone = Drone(), outside the try statement: an exception here leaves
\* main() unhandled and the interpreter exits with status 1.
Construct ==
    /\ pc = "construct"
    /\ \/ /\ pc' = "pair"
          /\ out' = Append(out, Line("info", "connecting", ""))
          /\ UNCHANGED exitStatus
       \/ /\ pc' = "exited"
          /\ exitStatus' = 1
          /\ UNCHANGED out
    /\ UNCHANGED <<script, calls, raised, exc, topCause, closeCalls, r_mm, h_mm>>

(* ---- compare_altitude_sensors.py ---- *)
Compare_pair ==
    /\ script = "compare"
    /\ SdkCall("pair", <<Line("info", "connected", ""),
                         Line("header", "get_range_data", "")>>,
               "get_range_data")

Compare_get_range_data ==
    /\ script = "compare"
    /\ pc = "get_range_data"
    /\ calls' = Append(calls, "get_range_data")
    /\ \/ \E r \in Readings : r_mm' = r /\ Return(<< >>, "get_height")
       \/ \E e \in Texts : Raise("get_range_data", e) /\ UNCHANGED r_mm
    /\ UNCHANGED <<script, closeCalls, exitStatus, h_mm>>

Compare_get_height ==
    /\ script = "compare"
    /\ pc = "get_height"
    /\ calls' = Append(calls, "get_height")
    /\ \/ \E h \in Readings :
            /\ h_mm' = h
            /\ Return(<<Line("report", "bottom_range_raw", "mm"),
                        Line("report", "bottom_range", "m"),
                        Line("report", "get_height", "m"),
                        Line("match", "get_height", MatchMark(r_mm, h)),
                        Line("header", "get_state_data", "")>>,
                      "get_state_data")
       \/ \E e \in Texts : Raise("get_height", e) /\ UNCHANGED h_mm
    /\ UNCHANGED <<script, closeCalls, exitStatus, r_mm>>

Compare_get_state_data ==
    /\ script = "compare"
    /\ \E n \in StateLens :
         SdkCall("get_state_data",
                 IF n > StateLenLimit
                 THEN <<Line("report", "get_state_data", "elements"),
                        Line("info", "get_state_data", "")>>
                 ELSE << >>,
                 "sendRequest")

\* sendRequest with its failure swallowed: the reads that follow still run.
Compare_sendRequest_Swallowed ==
    /\ script = "compare"
    /\ pc = "sendRequest"
    /\ calls' = Append(calls, "sendRequest")
    /\ pc' = "get_pressure"
    /\ \/ UNCHANGED raised
       \/ raised' = raised \cup {"sendRequest"}
    /\ UNCHANGED <<script, out, exc, topCause, closeCalls, exitStatus, r_mm, h_mm>>

Compare_sendRequest ==
    /\ script = "compare"
    /\ SdkCall("sendRequest", << >>, "get_pressure")

Compare_get_pressure ==
    /\ script = "compare"
    /\ SdkCall("get_pressure", << >>, "get_drone_temperature")

Compare_get_drone_temperature ==
    /\ script = "compare"
    /\ SdkCall("get_drone_temperature",
               <<Line("report", "get_pressure", "hPa"),
                 Line("report", "get_drone_temperature", "C"),
                 Line("info", "conclusion", "")>>,
               "finally")

(* ---- test_python_baseline.py ---- *)
Baseline_pair ==
    /\ script = "baseline"
    /\ SdkCall("pair", <<Line("info", "connected", ""),
                         Line("blank", "pair", ""),
                         Line("header", "get_information_data", "")>>,
               "get_information_data")

\* the optional fields of the information record (hasattr, lines 38-41)
InfoFields == <<"drone_version", "controller_version">>

RECURSIVE FieldLines(_, _)
FieldLines(present, i) ==
    IF i > Len(InfoFields) THEN << >>
    ELSE (IF InfoFields[i] \in present
          THEN <<Line("report", InfoFields[i], "")>> ELSE << >>)
         \o FieldLines(present, i + 1)

Baseline_get_information_data ==
    /\ script = "baseline"
    /\ \E present \in SUBSET {InfoFields[i] : i \in 1..Len(InfoFields)} :
         SdkCall("get_information_data",
                 <<Line("report", "get_information_data", "")>>
                    \o FieldLines(present, 1) \o Between("get_cpu_id_data"),
                 "get_cpu_id_data")

Baseline_get_cpu_id_data ==
    /\ script = "baseline"
    /\ SdkCall("get_cpu_id_data",
               <<Line("report", "get_cpu_id_data", "")>>
                  \o Between("get_address_data"),
               "get_address_data")

Baseline_get_address_data ==
    /\ script = "baseline"
    /\ SdkCall("get_address_data",
               <<Line("report", "get_address_data", "")>>
                  \o Between("get_count_data"),
               "get_count_data")

Baseline_get_count_data ==
    /\ script = "baseline"
    /\ SdkCall("get_count_data", <<Line("report", "get_count_data", "")>>,
               "get_flight_time")

Baseline_get_flight_time ==
    /\ script = "baseline"
    /\ SdkCall("get_flight_time",
               <<Line("report", "get_flight_time", "seconds")>>,
               "get_takeoff_count")

Baseline_get_takeoff_count ==
    /\ script = "baseline"
    /\ SdkCall("get_takeoff_count",
               <<Line("report", "get_takeoff_count", "")>>,
               "get_landing_count")

Baseline_get_landing_count ==
    /\ script = "baseline"
    /\ SdkCall("get_landing_count",
               <<Line("report", "get_landing_count", "")>>,
               "get_accident_count")

Baseline_get_accident_count ==
    /\ script = "baseline"
    /\ SdkCall("get_accident_count",
               <<Line("report", "get_accident_count", "")>>
                  \o Between("alt_request"),
               "alt_request")

\* drone.get_pressure()  # Request pressure data   (line 106)
Baseline_alt_request ==
    /\ script = "baseline"
    /\ SdkCall("alt_request", << >>, "get_height")

Baseline_get_height ==
    /\ script = "baseline"
    /\ SdkCall("get_height", << >>, "get_pressure")

Baseline_get_pressure ==
    /\ script = "baseline"
    /\ SdkCall("get_pressure", << >>, "get_temperature")

Baseline_get_temperature ==
    /\ script = "baseline"
    /\ SdkCall("get_temperature",
               <<Line("report", "get_height", "m"),
                 Line("report", "get_pressure", "hPa"),
                 Line("report", "get_temperature", "C")>>
                  \o Between("get_battery"),
               "get_battery")

Baseline_get_battery ==
    /\ script = "baseline"
    /\ SdkCall("get_battery",
               <<Line("report", "get_battery", "%")>> \o Between("banner"),
               "banner")

\* print("Python baseline test complete!") at the end of the try body
Banner ==
    /\ script = "baseline"
    /\ pc = "banner"
    /\ out' = Append(out, Line("banner", "main", ""))
    /\ pc' = "finally"
    /\ UNCHANGED <<script, calls, raised, exc, topCause, closeCalls,
                   exitStatus, r_mm, h_mm>>

(* ---- both scripts: except Exception as e / finally ---- *)
\* The outermost handler leaving the process without running `finally`.
ExceptTop_SkipFinally ==
    /\ pc = "except"
    /\ out' = out \o <<Line("error", topCause, exc),
                       Line("traceback", topCause, exc)>>
    /\ pc' = "exited"
    /\ exitStatus' = 0
    /\ UNCHANGED <<script, calls, raised, exc, topCause, closeCalls, r_mm, h_mm>>

\* The outermost handler: print the error line and the traceback.
ExceptTop ==
    /\ pc = "except"
    /\ out' = out \o <<Line("error", topCause, exc),
                       Line("traceback", topCause, exc)>>
    /\ pc' = "finally"
    /\ UNCHANGED <<script, calls, raised, exc, topCause, closeCalls,
                   exitStatus, r_mm, h_mm>>

\* finally: print the disconnecting notice, drone.close(), print the
\* completion notice.  close() is as fallible as any SDK call; when it
\* raises, the exception leaves main() and the interpreter exits with 1.
Teardown ==
    /\ pc = "finally"
    /\ calls' = Append(calls, "close")
    /\ closeCalls' = closeCalls + 1
    /\ pc' = "exited"
    /\ \/ /\ out' = out \o <<Line("info", "disconnecting", ""),
                             Line("info", "done", "")>>
          /\ exitStatus' = 0
          /\ UNCHANGED raised
       \/ /\ out' = Append(out, Line("info", "disconnecting", ""))
          /\ exitStatus' = 1
          /\ raised' = raised \cup {"close"}
    /\ UNCHANGED <<script, exc, topCause, r_mm, h_mm>>

Next ==
    \/ Construct
    \/ Compare_pair
    \/ Compare_get_range_data
    \/ Compare_get_height
    \/ Compare_get_state_data
    \/ Compare_sendRequest
    \/ Compare_get_pressure
    \/ Compare_get_drone_temperature
    \/ Baseline_pair
    \/ Baseline_get_information_data
    \/ Baseline_get_cpu_id_data
    \/ Baseline_get_address_data
    \/ Baseline_get_count_data
    \/ Baseline_get_flight_time
    \/ Baseline_get_takeoff_count
    \/ Baseline_get_landing_count
    \/ Baseline_get_accident_count
    \/ Baseline_alt_request
    \/ Baseline_get_height
    \/ Baseline_get_pressure
    \/ Baseline_get_temperature
    \/ Baseline_get_battery
    \/ Banner
    \/ ExceptTop
    \/ Teardown

Spec == Init /\ [][Next]_vars

TypeOK ==
    /\ script \in Scripts
    /\ closeCalls \in 0..2
    /\ exitStatus \in {-1, 0, 1}
    /\ r_mm \in -1..MaxMm
    /\ h_mm \in -1..MaxMm

(* ------------------------- vocabulary of the claims --------------------- *)
Issued(site) == \E i \in DOMAIN calls : calls[i] = site
Printed(kind, site) ==
    \E i \in DOMAIN out : out[i].kind = kind /\ out[i].site = site
\* every (k2, s2) line is preceded by some (k1, s1) line
PrintedBefore(k1, s1, k2, s2) ==
    \A j \in DOMAIN out :
        (out[j].kind = k2 /\ out[j].site = s2)
        => \E i \in 1..(j - 1) : out[i].kind = k1 /\ out[i].site = s1
Exited == pc = "exited"
PairOk == Issued("pair") /\ "pair" \notin raised
WarnCount == Cardinality({i \in DOMAIN out : out[i].kind = "warn"})

\* The probe catalogue of each script: the call sites of every probe, in
\* order (spec section 4.2).
CompareProbes == << {"get_range_data"}, {"get_height"}, {"get_state_data"},
                    {"sendRequest", "get_pressure", "get_drone_temperature"} >>
BaselineProbes == << {"get_information_data"}, {"get_cpu_id_data"},
                     {"get_address_data"},
                     {"get_count_data"} \cup CounterSites,
                     AltitudeSites, {"get_battery"} >>
ProbesOf(s) == IF s = "compare" THEN CompareProbes ELSE BaselineProbes
\* the first SDK call of each probe
CompareFirst == <<"get_range_data", "get_height", "get_state_data", "sendRequest">>
BaselineFirst == <<"get_information_data", "get_cpu_id_data", "get_address_data",
                   "get_count_data", "alt_request", "get_battery">>
FirstOf(s) == IF s = "compare" THEN CompareFirst ELSE BaselineFirst
ProbeSites(s) == UNION {ProbesOf(s)[i] : i \in DOMAIN ProbesOf(s)}

(* C1: in both scripts, when the connection succeeded and the SDK call of  *)
(* probe i raises, probe i+1 is still executed (its first SDK call is      *)
(* issued by the time the process exits).                                  *)
C1_FaultIsolation ==
    (Exited /\ PairOk) =>
        \A i \in 1..(Len(ProbesOf(script)) - 1) :
            (ProbesOf(script)[i] \cap raised # {}) => Issued(FirstOf(script)[i + 1])

(* C2: on every path that reaches the connect step (all probes succeed, a  *)
(* probe raises, pair() raises) drone.close() is called exactly once       *)
(* before the process exits: never twice, and not zero times at exit.      *)
C2_CloseExactlyOnce ==
    /\ closeCalls <= 1
    /\ (Exited /\ Issued("pair")) => closeCalls = 1
C2_Witness ==
    Exited /\ "pair" \in raised /\ closeCalls = 1

(* C3: when pair() raises, the script prints an error line, issues no      *)
(* probe call, and afterwards prints the disconnecting notice and the      *)
(* final completion notice.                                                *)
C3_ConnectFailure ==
    (Exited /\ "pair" \in raised) =>
        /\ Printed("error", "pair")
        /\ \A i \in DOMAIN calls : calls[i] \in {"pair", "close"}
        /\ Printed("info", "disconnecting")
        /\ Printed("info", "done")
        /\ PrintedBefore("error", "pair", "info", "disconnecting")
        /\ PrintedBefore("info", "disconnecting", "info", "done")

(* C4: whenever a sensor, metadata or statistics query raises, in either   *)
(* script, the exception is caught at that probe, a warning line is        *)
(* printed for that probe, and the top-level handler is not entered        *)
(* because of it.                                                          *)
C4_CaughtAtProbe ==
    \A site \in raised \cap ProbeSites(script) :
        /\ Printed("warn", WarnLabel(site))
        /\ topCause # site

(* C5: every run that reaches drone.pair() ends with exit status 0,        *)
(* whatever fails afterwards (pair, a probe, or close() in teardown);      *)
(* only a failure before the connect step gives a non-zero status.         *)
C5_ExitStatus ==
    Exited => (exitStatus # 0 <=> ~Issued("pair"))

Abs(x) == IF x < 0 THEN -x ELSE x
MatchLine(mark) ==
    \E i \in DOMAIN out :
        out[i].kind = "match" /\ out[i].text = mark

(* C6: in the comparison script, for a raw range of r mm and a height      *)
(* reading of h m, the Match line reports match exactly when               *)
(* |h - r/1000| < 0.001 and mismatch otherwise; a difference of exactly    *)
(* 1 mm reports mismatch.  With the height reading h = h_mm/1000 the       *)
(* condition is |h_mm - r_mm| < 1 in millimetres.                          *)
C6_MatchWithinTolerance ==
    (script = "compare" /\ h_mm >= 0) =>
        /\ MatchLine(Check) <=> Abs(h_mm - r_mm) < 1
        /\ MatchLine(Cross) <=> ~(Abs(h_mm - r_mm) < 1)

\* The probes of the baseline script as C7 lists them: the count-data probe
\* is the aggregate get_count_data() query.
C7Probes == << {"get_information_data"}, {"get_cpu_id_data"},
               {"get_address_data"}, {"get_count_data"},
               AltitudeSites, {"get_battery"} >>
\* the report lines a probe prints when all its calls return
C7Reports == << {"get_information_data"}, {"get_cpu_id_data"},
                {"get_address_data"}, {"get_count_data"},
                {"get_height", "get_pressure", "get_temperature"},
                {"get_battery"} >>
\* the label of the warning line of each probe
C7Labels == <<"get_information_data", "get_cpu_id_data", "get_address_data",
              "get_count_data", "Altitude test failed", "Battery test failed">>
\* probe i is the one probe that raised: exactly one query raised, in probe i
OnlyProbeRaised(i) ==
    /\ Cardinality(raised \ {"close"}) = 1
    /\ (raised \ {"close"}) \subseteq C7Probes[i]

C8_CountersIsolated ==
    (script = "baseline" /\ Exited /\ PairOk) =>
        \A c \in CounterSites : Issued(c)

(* C9: in the comparison script, whenever get_pressure() or                *)
(* get_drone_temperature() is called, sendRequest(0x10, 0x20) was issued   *)
(* earlier in the run and returned without raising.                        *)
C9_RequestBeforeRead ==
    script = "compare" =>
        \A i \in DOMAIN calls :
            calls[i] \in {"get_pressure", "get_drone_temperature"} =>
                /\ \E j \in 1..(i - 1) : calls[j] = "sendRequest"
                /\ "sendRequest" \notin raised
C9_Witness ==
    /\ script = "compare"
    /\ Issued("sendRequest") /\ Issued("get_pressure")
    /\ Issued("get_drone_temperature")

(* C10: in the baseline script the success banner is printed in every run  *)
(* in which pair() succeeded, however many probes raised, never when       *)
(* pair() raised, and always before the disconnecting notice.              *)
C10_Banner ==
    script = "baseline" =>
        /\ Printed("banner", "main") => PairOk
        /\ Printed("info", "disconnecting") =>
              (PairOk <=> Printed("banner", "main"))
        /\ PrintedBefore("banner", "main", "info", "disconnecting") \/ ~PairOk
C10_Witness ==
    /\ script = "baseline" /\ Exited
    /\ (CounterSites \cup {"get_information_data", "get_cpu_id_data",
                           "get_address_data", "alt_request", "get_battery"})
          \subseteq raised
    /\ Printed("banner", "main")
    /\ Printed("info", "disconnecting")

====
